---- MODULE Spec2Model ----
(***************************************************************************)
(* Model of ml/lstm_predictor.py: the LSTM regime-forecasting pipeline.    *)
(*                                                                         *)
(* Floating-point quantities are fixed-point integers: raw PXI values,     *)
(* normalized values and confidences are counted in units of 1/Scale.      *)
(* The learned weights are represented by their provenance (which run and  *)
(* how many epochs of optimizer steps produced them); the network's        *)
(* output and the batch losses are inputs chosen from small sets.          *)
(***************************************************************************)
EXTENDS Integers, Sequences, FiniteSets, TLC

VARIABLES
    run,              \* number of the current invocation of the script
    pc,               \* position of the current invocation
    caller,           \* who called train_model / predict_future
    modelFile,        \* Config.MODEL_PATH: <<>> or <<state_dict>>
    scalerFile,       \* Config.SCALER_PATH: <<>> or <<[min, max]>>
    savedUnder,       \* the scaler of the run that wrote modelFile
    args,             \* parsed options: horizon, retrain, epochs
    historical_pxi,   \* main: the fetched series
    scaler,           \* MinMaxScaler instance: [min, max]
    need_training,    \* main: need_training
    train_dataset,    \* the (sequence, target) pairs behind train_loader
    val_dataset,      \* the (sequence, target) pairs behind val_loader
    model,            \* the in-memory parameters (state_dict)
    history,          \* train_model: history
    best_val_loss,    \* train_model: best_val_loss
    epoch,            \* train_model: number of completed loop iterations
    saves,            \* train_model: torch.save calls made by this call
    initial_sequence, \* predict_future: initial_sequence
    current_seq,      \* predict_future: current_seq
    input_seq,        \* predict_future: the last model input
    pred_log,         \* predict_future: every pred_scaled, in order
    forecasts,        \* predict_future: forecasts
    day,              \* predict_future: number of completed loop iterations
    output,           \* main: <<>> or <<the printed report>>
    pxi_in,           \* derive_regime: the argument of a direct call
    regime_out        \* derive_regime: the result of a direct call

vars == <<run, pc, caller, modelFile, scalerFile, savedUnder, args,
          historical_pxi, scaler, need_training, train_dataset, val_dataset,
          model, history, best_val_loss, epoch, saves, initial_sequence,
          current_seq, input_seq, pred_log, forecasts, day, output,
          pxi_in, regime_out>>

fileVars == <<modelFile, scalerFile, savedUnder>>
trainVars == <<history, best_val_loss, epoch, saves>>
predictVars == <<initial_sequence, current_seq, input_seq, pred_log,
                 forecasts, day>>
regimeVars == <<pxi_in, regime_out>>

(***************************************************************************)
(* Program constants (class Config and literals of the source).            *)
(***************************************************************************)
SEQUENCE_LENGTH == 10
BATCH_SIZE == 16
TRAIN_SPLIT_PCT == 80
MIN_MARGIN == 10

\* Fixed-point unit: Scale units make 1.0.
Scale == 100
\* The guard added to (max - min): the smallest positive fixed-point value.
Eps == 1
\* Confidence heuristic, in units of 1/Scale.
CONF_START == 95
CONF_DECAY == 5
CONF_FLOOR == 50

\* Python's None, float('nan') and float('inf').
None == -99999
NaN == -1
Inf == 1000000

(***************************************************************************)
(* Bounds of the model.                                                    *)
(***************************************************************************)
MaxRuns == 3
MaxEpochs == 2
MaxLoss == 2
MaxHistoryLen == 20
MaxRunHorizon == 2
MaxHorizon == 12
MaxPxi == 300

(***************************************************************************)
(* Helpers for floats and arrays.                                          *)
(***************************************************************************)
Max2(a, b) == IF a >= b THEN a ELSE b

\* a < b on floats: every comparison with nan is false.
FloatLess(a, b) == a # NaN /\ b # NaN /\ a < b

RECURSIVE SeqSum(_)
SeqSum(s) == IF Len(s) = 0 THEN 0 ELSE s[1] + SeqSum(Tail(s))

RECURSIVE SeqMin(_)
SeqMin(s) ==
    IF Len(s) = 1 THEN s[1]
    ELSE LET m == SeqMin(Tail(s)) IN IF s[1] < m THEN s[1] ELSE m

RECURSIVE SeqMax(_)
SeqMax(s) ==
    IF Len(s) = 1 THEN s[1]
    ELSE LET m == SeqMax(Tail(s)) IN IF s[1] > m THEN s[1] ELSE m

\* np.mean: nan for an empty list (a list holding nan has mean nan).
Mean(s) ==
    IF Len(s) = 0 \/ (\E i \in 1..Len(s) : s[i] = NaN) THEN NaN
    ELSE SeqSum(s) \div Len(s)

\* data[-n:]
LastN(s, n) == IF Len(s) <= n THEN s ELSE SubSeq(s, Len(s) - n + 1, Len(s))

\* data[:k] and data[k:]
Prefix(s, k) == SubSeq(s, 1, k)
Suffix(s, k) == SubSeq(s, k + 1, Len(s))

(***************************************************************************)
(* MinMaxScaler                                                            *)
(***************************************************************************)
UnfitScaler == [min |-> None, max |-> None]

fit(data) == [min |-> SeqMin(data), max |-> SeqMax(data)]

transform_value(sc, v) ==
    (2 * (v - sc.min) * Scale) \div (sc.max - sc.min + Eps) - Scale

inverse_transform_value(sc, x) ==
    ((x + Scale) * (sc.max - sc.min + Eps)) \div (2 * Scale) + sc.min

transform(sc, data) == [i \in 1..Len(data) |-> transform_value(sc, data[i])]

(***************************************************************************)
(* Windowing and data loading                                              *)
(***************************************************************************)
create_sequences(data, seq_length) ==
    LET cnt == IF Len(data) > seq_length THEN Len(data) - seq_length ELSE 0
    IN  [sequences |-> [i \in 1..cnt |-> SubSeq(data, i, i + seq_length - 1)],
         targets   |-> [i \in 1..cnt |-> data[i + seq_length]]]

PXIDataset(sequences, targets) == [sequences |-> sequences, targets |-> targets]

EmptyDataset == PXIDataset(<<>>, <<>>)

DatasetLen(ds) == Len(ds.sequences)

\* int(len(sequences) * Config.TRAIN_SPLIT)
SplitIdx(n) == (n * TRAIN_SPLIT_PCT) \div 100

\* Number of batches a DataLoader yields over a dataset.
NumBatches(ds) == (DatasetLen(ds) + BATCH_SIZE - 1) \div BATCH_SIZE

(***************************************************************************)
(* derive_regime                                                           *)
(***************************************************************************)
\* derive_regime with the first comparison non-strict.
derive_regime_ge(pxi) ==
    IF pxi >= 2 * Scale THEN "Strong PAMP"
    ELSE IF pxi > 1 * Scale THEN "Moderate PAMP"
    ELSE IF pxi >= -1 * Scale THEN "Normal"
    ELSE IF pxi >= -2 * Scale THEN "Elevated Stress"
    ELSE "Crisis"

derive_regime(pxi) ==
    IF pxi > 2 * Scale THEN "Strong PAMP"
    ELSE IF pxi > 1 * Scale THEN "Moderate PAMP"
    ELSE IF pxi >= -1 * Scale THEN "Normal"
    ELSE IF pxi >= -2 * Scale THEN "Elevated Stress"
    ELSE "Crisis"

(***************************************************************************)
(* Pieces of predict_future                                                *)
(***************************************************************************)
\* range(horizon): the days counted from 0.
DayRangeFromZero(horizon) == [i \in 1..horizon |-> i - 1]

\* range(1, horizon + 1), as the sequence of values the loop variable takes.
DayRange(horizon) == [i \in 1..horizon |-> i]

\* current_seq[:Config.SEQUENCE_LENGTH]: the oldest entries instead.
InputWindowHead(seq) == SubSeq(seq, 1, SEQUENCE_LENGTH)

\* current_seq[-Config.SEQUENCE_LENGTH:]
InputWindow(seq) == LastN(seq, SEQUENCE_LENGTH)

\* Feeding back the prediction clamped to [-1, 1].
FeedbackClamped(sc, pred_scaled) ==
    IF pred_scaled > Scale THEN Scale
    ELSE IF pred_scaled < -Scale THEN -Scale ELSE pred_scaled

\* Feeding back the raw-scale prediction, normalized again.
FeedbackRoundTrip(sc, pred_scaled) ==
    transform_value(sc, inverse_transform_value(sc, pred_scaled))

\* The value np.append adds to current_seq.
Feedback(sc, pred_scaled) == pred_scaled

\* The linear decay without its floor.
ConfidenceNoFloor(d) == CONF_START - (d - 1) * CONF_DECAY

\* max(0.5, 0.95 - (day - 1) * 0.05)
Confidence(d) == Max2(CONF_FLOOR, CONF_START - (d - 1) * CONF_DECAY)

ForecastEntry(d, pred_pxi) ==
    [day |-> d, predictedPxi |-> pred_pxi,
     predictedRegime |-> derive_regime(pred_pxi),
     confidence |-> Confidence(d)]

(***************************************************************************)
(* Pieces of train_model and main                                          *)
(***************************************************************************)
\* Saving also when the loss only equals the best so far.
ShouldSaveLE(avg_val_loss, best) ==
    avg_val_loss # NaN /\ best # NaN /\ avg_val_loss <= best

\* if avg_val_loss < best_val_loss
ShouldSave(avg_val_loss, best) == FloatLess(avg_val_loss, best)

\* The length check without the margin of 10.
InsufficientDataNoMargin(n) == n < SEQUENCE_LENGTH

\* len(historical_pxi) < Config.SEQUENCE_LENGTH + 10
InsufficientData(n) == n < SEQUENCE_LENGTH + MIN_MARGIN

\* Training only on request, whether or not the weights file exists.
NeedTrainingRetrainOnly(retrain, file) == retrain

\* args.retrain or not os.path.exists(Config.MODEL_PATH)
NeedTraining(retrain, file) == retrain \/ file = <<>>

\* The weights: a fresh random initialisation and each epoch of optimizer
\* steps are identified by the run and the number of epochs behind them.
NoModel == [run |-> None, epoch |-> None]
FreshModel(r) == [run |-> r, epoch |-> 0]
Stepped(m) == [m EXCEPT !.epoch = @ + 1]

EmptyHistory == [train_loss |-> <<>>, val_loss |-> <<>>]

(***************************************************************************)
(* Inputs                                                                  *)
(***************************************************************************)
\* A series of the given length that steps through lo, mid, hi.
Series(n, shape) ==
    [i \in 1..n |-> shape.lo + ((i - 1) % 3) * ((shape.hi - shape.lo) \div 2)]

HistoryShapes == {[lo |-> 150, hi |-> 150], [lo |-> -250, hi |-> 250]}

ShortLens == {5, SEQUENCE_LENGTH + MIN_MARGIN - 1}

Histories ==
    {Series(n, sh) : n \in ShortLens \cup (SEQUENCE_LENGTH + MIN_MARGIN)..MaxHistoryLen,
                     sh \in HistoryShapes}

\* Mean squared-error losses of a batch.
LossValues == 1..MaxLoss

\* Outputs of the network, normalized scale: inside and outside [-1, 1].
PredValues == {-40, 130}

(***************************************************************************)
(* State of a process before main runs                                     *)
(***************************************************************************)
LocalsInit ==
    /\ args = [horizon |-> 0, retrain |-> FALSE, epochs |-> 0]
    /\ historical_pxi = <<>>
    /\ scaler = UnfitScaler
    /\ need_training = FALSE
    /\ train_dataset = EmptyDataset
    /\ val_dataset = EmptyDataset
    /\ model = NoModel
    /\ history = EmptyHistory
    /\ best_val_loss = Inf
    /\ epoch = 0
    /\ saves = 0
    /\ initial_sequence = <<>>
    /\ current_seq = <<>>
    /\ input_seq = <<>>
    /\ pred_log = <<>>
    /\ forecasts = <<>>
    /\ day = 0
    /\ output = <<>>

Init ==
    /\ run = 1
    /\ pc = "start"
    /\ caller = "main"
    /\ modelFile = <<>>
    /\ scalerFile = <<>>
    /\ savedUnder = UnfitScaler
    /\ LocalsInit
    /\ pxi_in = 0
    /\ regime_out = "none"

(***************************************************************************)
(* main                                                                    *)
(***************************************************************************)
\* Lines 333-344: parse the options, fetch the series (or exit on a
\* database error).  What --days selects is whatever the store returns.
MainFetch ==
    /\ pc = "start"
    /\ \E h \in 1..MaxRunHorizon, r \in BOOLEAN, e \in 0..MaxEpochs :
           args' = [horizon |-> h, retrain |-> r, epochs |-> e]
    /\ \/ \E data \in Histories :
              /\ historical_pxi' = data
              /\ pc' = "fetched"
       \/ /\ historical_pxi' = historical_pxi
          /\ pc' = "exit1"
    /\ UNCHANGED <<run, caller, fileVars, scaler, need_training, train_dataset,
                   val_dataset, model, trainVars, predictVars, output,
                   regimeVars>>

\* Lines 346-355: the length check, scaler.fit, need_training.
MainCheck ==
    /\ pc = "fetched"
    /\ IF InsufficientData(Len(historical_pxi))
       THEN /\ pc' = "exit1"
            /\ UNCHANGED <<scaler, need_training>>
       ELSE /\ scaler' = fit(historical_pxi)
            /\ need_training' = NeedTraining(args.retrain, modelFile)
            /\ pc' = IF need_training' THEN "prepare" ELSE "load"
    /\ UNCHANGED <<run, caller, fileVars, args, historical_pxi, train_dataset,
                   val_dataset, model, trainVars, predictVars, output,
                   regimeVars>>

\* Lines 357-382: windowing, the split, the loaders, a fresh model, and the
\* call of train_model.
MainPrepare ==
    /\ pc = "prepare"
    /\ LET scaled_data == transform(scaler, historical_pxi)
           w == create_sequences(scaled_data, SEQUENCE_LENGTH)
           split_idx == SplitIdx(Len(w.sequences))
       IN  /\ train_dataset' = PXIDataset(Prefix(w.sequences, split_idx),
                                          Prefix(w.targets, split_idx))
           /\ val_dataset' = PXIDataset(Suffix(w.sequences, split_idx),
                                        Suffix(w.targets, split_idx))
    /\ model' = FreshModel(run)
    /\ pc' = "train_call"
    /\ UNCHANGED <<run, caller, fileVars, args, historical_pxi, scaler,
                   need_training, trainVars, predictVars, output, regimeVars>>

\* Lines 385-387 and 405-408: scaler.save, then the call of predict_future.
MainSaveScaler ==
    /\ pc = "save_scaler"
    /\ scalerFile' = <<scaler>>
    /\ initial_sequence' = LastN(historical_pxi, SEQUENCE_LENGTH)
    /\ pc' = "predict_call"
    /\ UNCHANGED <<run, caller, modelFile, savedUnder, args, historical_pxi,
                   scaler, need_training, train_dataset, val_dataset, model,
                   trainVars, current_seq, input_seq, pred_log, forecasts,
                   day, output, regimeVars>>

\* Lines 389-408: load the weights and the scaler parameters (a missing
\* file raises), then the call of predict_future.
MainLoad ==
    /\ pc = "load"
    /\ IF modelFile = <<>>
       THEN /\ pc' = "exit_exc"
            /\ UNCHANGED <<model, scaler, initial_sequence>>
       ELSE /\ model' = modelFile[1]
            /\ IF scalerFile = <<>>
               THEN /\ pc' = "exit_exc"
                    /\ UNCHANGED <<scaler, initial_sequence>>
               ELSE /\ scaler' = scalerFile[1]
                    /\ initial_sequence' = LastN(historical_pxi, SEQUENCE_LENGTH)
                    /\ pc' = "predict_call"
    /\ UNCHANGED <<run, caller, fileVars, args, historical_pxi, need_training,
                   train_dataset, val_dataset, trainVars, current_seq,
                   input_seq, pred_log, forecasts, day, output, regimeVars>>

\* Number of forecast days labelled with each regime that occurs.
RegimeDistribution(fs) ==
    [r \in {fs[i].predictedRegime : i \in 1..Len(fs)} |->
        Cardinality({i \in 1..Len(fs) : fs[i].predictedRegime = r})]

\* Lines 410-436: build and print the report.
MainReport ==
    /\ pc = "report"
    /\ output' = <<[method |-> "lstm",
                    sequence_length |-> SEQUENCE_LENGTH,
                    daysAnalyzed |-> Len(historical_pxi),
                    horizon |-> args.horizon,
                    forecasts |-> forecasts,
                    avgPredictedPxi |->
                        Mean([i \in 1..Len(forecasts) |-> forecasts[i].predictedPxi]),
                    avgConfidence |->
                        Mean([i \in 1..Len(forecasts) |-> forecasts[i].confidence]),
                    regimeDistribution |-> RegimeDistribution(forecasts)]>>
    /\ pc' = "exit0"
    /\ UNCHANGED <<run, caller, fileVars, args, historical_pxi, scaler,
                   need_training, train_dataset, val_dataset, model,
                   trainVars, predictVars, regimeVars>>

\* Lines 439-440: the process has ended; the script is invoked again.  Only
\* the files survive.
NextRun ==
    /\ pc \in {"exit0", "exit1", "exit_exc"}
    /\ run < MaxRuns
    /\ run' = run + 1
    /\ pc' = "start"
    /\ args' = [horizon |-> 0, retrain |-> FALSE, epochs |-> 0]
    /\ historical_pxi' = <<>>
    /\ scaler' = UnfitScaler
    /\ need_training' = FALSE
    /\ train_dataset' = EmptyDataset
    /\ val_dataset' = EmptyDataset
    /\ model' = NoModel
    /\ history' = EmptyHistory
    /\ best_val_loss' = Inf
    /\ epoch' = 0
    /\ saves' = 0
    /\ initial_sequence' = <<>>
    /\ current_seq' = <<>>
    /\ input_seq' = <<>>
    /\ pred_log' = <<>>
    /\ forecasts' = <<>>
    /\ day' = 0
    /\ output' = <<>>
    /\ UNCHANGED <<caller, fileVars, regimeVars>>

(***************************************************************************)
(* train_model                                                             *)
(***************************************************************************)
\* Lines 204-210.
TrainBegin ==
    /\ pc = "train_call"
    /\ history' = EmptyHistory
    /\ best_val_loss' = Inf
    /\ epoch' = 0
    /\ saves' = 0
    /\ pc' = "train_loop"
    /\ UNCHANGED <<run, caller, fileVars, args, historical_pxi, scaler,
                   need_training, train_dataset, val_dataset, model,
                   predictVars, output, regimeVars>>

\* Lines 212-260: one iteration of the epoch loop.
TrainEpoch ==
    /\ pc = "train_loop"
    /\ epoch < args.epochs
    /\ \E train_losses \in [1..NumBatches(train_dataset) -> LossValues],
          val_losses \in [1..NumBatches(val_dataset) -> LossValues] :
          LET avg_train_loss == Mean(train_losses)
              avg_val_loss == Mean(val_losses)
              stepped == IF NumBatches(train_dataset) > 0
                         THEN Stepped(model) ELSE model
          IN  /\ model' = stepped
              /\ history' =
                    [train_loss |-> Append(history.train_loss, avg_train_loss),
                     val_loss |-> Append(history.val_loss, avg_val_loss)]
              /\ IF ShouldSave(avg_val_loss, best_val_loss)
                 THEN /\ best_val_loss' = avg_val_loss
                      /\ modelFile' = <<stepped>>
                      /\ savedUnder' = scaler
                      /\ saves' = saves + 1
                 ELSE UNCHANGED <<best_val_loss, modelFile, savedUnder, saves>>
    /\ epoch' = epoch + 1
    /\ pc' = "train_loop"
    /\ UNCHANGED <<run, caller, scalerFile, args, historical_pxi, scaler,
                   need_training, train_dataset, val_dataset, predictVars,
                   output, regimeVars>>

\* Lines 262-263: the loop is over; return history.
TrainReturn ==
    /\ pc = "train_loop"
    /\ epoch >= args.epochs
    /\ pc' = IF caller = "main" THEN "save_scaler" ELSE "returned"
    /\ UNCHANGED <<run, caller, fileVars, args, historical_pxi, scaler,
                   need_training, train_dataset, val_dataset, model,
                   trainVars, predictVars, output, regimeVars>>

(***************************************************************************)
(* predict_future                                                          *)
(***************************************************************************)
\* Lines 291-295.
PredictBegin ==
    /\ pc = "predict_call"
    /\ current_seq' = transform(scaler, initial_sequence)
    /\ forecasts' = <<>>
    /\ input_seq' = <<>>
    /\ pred_log' = <<>>
    /\ day' = 0
    /\ pc' = "predict_loop"
    /\ UNCHANGED <<run, caller, fileVars, args, historical_pxi, scaler,
                   need_training, train_dataset, val_dataset, model,
                   trainVars, initial_sequence, output, regimeVars>>

\* Lines 298-323: one iteration of the day loop.
PredictDay ==
    /\ pc = "predict_loop"
    /\ day < Len(DayRange(args.horizon))
    /\ \E pred_scaled \in PredValues :
          LET d == DayRange(args.horizon)[day + 1]
              pred_pxi == inverse_transform_value(scaler, pred_scaled)
          IN  /\ input_seq' = InputWindow(current_seq)
              /\ forecasts' = Append(forecasts, ForecastEntry(d, pred_pxi))
              /\ current_seq' = Append(current_seq, Feedback(scaler, pred_scaled))
              /\ pred_log' = Append(pred_log, pred_scaled)
    /\ day' = day + 1
    /\ pc' = "predict_loop"
    /\ UNCHANGED <<run, caller, fileVars, args, historical_pxi, scaler,
                   need_training, train_dataset, val_dataset, model,
                   trainVars, initial_sequence, output, regimeVars>>

\* Line 325: the loop is over; return forecasts.
PredictReturn ==
    /\ pc = "predict_loop"
    /\ day >= Len(DayRange(args.horizon))
    /\ pc' = IF caller = "main" THEN "report" ELSE "returned"
    /\ UNCHANGED <<run, caller, fileVars, args, historical_pxi, scaler,
                   need_training, train_dataset, val_dataset, model,
                   trainVars, predictVars, output, regimeVars>>

(***************************************************************************)
(* The pipeline: the script invoked again and again over the same files.   *)
(***************************************************************************)
Next ==
    \/ MainFetch
    \/ MainCheck
    \/ MainPrepare
    \/ TrainBegin
    \/ TrainEpoch
    \/ TrainReturn
    \/ MainSaveScaler
    \/ MainLoad
    \/ PredictBegin
    \/ PredictDay
    \/ PredictReturn
    \/ MainReport
    \/ NextRun

Spec == Init /\ [][Next]_vars

(***************************************************************************)
(* train_model called on its own, with any loaders and any epochs.         *)
(***************************************************************************)
\* A series long enough that a loader yields more than one batch.
LongLen == 45

ArgumentSeries ==
    {Series(n, sh) : n \in (SEQUENCE_LENGTH + MIN_MARGIN)..MaxHistoryLen \cup {LongLen},
                     sh \in HistoryShapes}

\* Weights left by an earlier training, for a file that exists beforehand.
OlderModel == [run |-> 0, epoch |-> 1]

InitTrain ==
    /\ run = 1
    /\ pc = "train_call"
    /\ caller = "direct"
    /\ modelFile \in {<<>>, <<OlderModel>>}
    /\ scalerFile = <<>>
    /\ savedUnder = UnfitScaler
    /\ \E e \in 0..MaxEpochs :
           args = [horizon |-> 0, retrain |-> FALSE, epochs |-> e]
    /\ \E data \in ArgumentSeries :
           LET w == create_sequences(transform(fit(data), data), SEQUENCE_LENGTH)
               n == Len(w.sequences)
           IN  /\ historical_pxi = data
               /\ scaler = fit(data)
               /\ \E split_idx \in {0, SplitIdx(n), n} :
                      /\ train_dataset = PXIDataset(Prefix(w.sequences, split_idx),
                                                    Prefix(w.targets, split_idx))
                      /\ val_dataset = PXIDataset(Suffix(w.sequences, split_idx),
                                                  Suffix(w.targets, split_idx))
    /\ need_training = TRUE
    /\ model = FreshModel(1)
    /\ history = EmptyHistory
    /\ best_val_loss = Inf
    /\ epoch = 0
    /\ saves = 0
    /\ initial_sequence = <<>>
    /\ current_seq = <<>>
    /\ input_seq = <<>>
    /\ pred_log = <<>>
    /\ forecasts = <<>>
    /\ day = 0
    /\ output = <<>>
    /\ pxi_in = 0
    /\ regime_out = "none"

NextTrain ==
    \/ TrainBegin
    \/ TrainEpoch
    \/ TrainReturn

SpecTrain == InitTrain /\ [][NextTrain]_vars

(***************************************************************************)
(* predict_future called on its own, with any horizon >= 1.                *)
(***************************************************************************)
InitForecast ==
    /\ run = 1
    /\ pc = "predict_call"
    /\ caller = "direct"
    /\ modelFile = <<>>
    /\ scalerFile = <<>>
    /\ savedUnder = UnfitScaler
    /\ \E h \in 1..MaxHorizon :
           args = [horizon |-> h, retrain |-> FALSE, epochs |-> 0]
    /\ \E data \in ArgumentSeries :
           /\ historical_pxi = data
           /\ scaler = fit(data)
           /\ initial_sequence = LastN(data, SEQUENCE_LENGTH)
    /\ need_training = FALSE
    /\ train_dataset = EmptyDataset
    /\ val_dataset = EmptyDataset
    /\ model = OlderModel
    /\ history = EmptyHistory
    /\ best_val_loss = Inf
    /\ epoch = 0
    /\ saves = 0
    /\ current_seq = <<>>
    /\ input_seq = <<>>
    /\ pred_log = <<>>
    /\ forecasts = <<>>
    /\ day = 0
    /\ output = <<>>
    /\ pxi_in = 0
    /\ regime_out = "none"

NextForecast ==
    \/ PredictBegin
    \/ PredictDay
    \/ PredictReturn

SpecForecast == InitForecast /\ [][NextForecast]_vars

(***************************************************************************)
(* derive_regime called on its own, with any value.                        *)
(***************************************************************************)
InitRegime ==
    /\ run = 1
    /\ pc = "regime_call"
    /\ caller = "direct"
    /\ modelFile = <<>>
    /\ scalerFile = <<>>
    /\ savedUnder = UnfitScaler
    /\ LocalsInit
    /\ pxi_in \in -MaxPxi..MaxPxi
    /\ regime_out = "none"

DeriveRegime ==
    /\ pc = "regime_call"
    /\ regime_out' = derive_regime(pxi_in)
    /\ pc' = "returned"
    /\ UNCHANGED <<run, caller, fileVars, args, historical_pxi, scaler,
                   need_training, train_dataset, val_dataset, model,
                   trainVars, predictVars, output, pxi_in>>

NextRegime == DeriveRegime

SpecRegime == InitRegime /\ [][NextRegime]_vars

(***************************************************************************)
(* Claims                                                                  *)
(***************************************************************************)
Last(s) == s[Len(s)]
Min2(a, b) == IF a <= b THEN a ELSE b

\* v is strictly lower than every validation loss of the earlier epochs
\* (the best so far starts at +infinity; nan is lower than nothing).
StrictlyBest(earlier, v) ==
    /\ v # NaN
    /\ \A i \in 1..Len(earlier) : earlier[i] = NaN \/ v < earlier[i]

\* C1: in a run of train_model the checkpoint is written in an epoch if and
\* only if that epoch's mean validation loss is strictly lower than the
\* validation loss of every earlier epoch of the run; what is written is
\* the current parameters; no other step writes it; and a run with
\* epochs = 0 writes nothing and returns empty loss histories.
C1_CheckpointOnlyOnImprovement ==
    /\ [][IF epoch' = epoch + 1
          THEN /\ Len(history'.val_loss) = epoch'
               /\ Len(history'.train_loss) = epoch'
               /\ IF StrictlyBest(history.val_loss, Last(history'.val_loss))
                  THEN saves' = saves + 1 /\ modelFile' = <<model'>>
                  ELSE saves' = saves /\ modelFile' = modelFile
          ELSE saves' = saves /\ modelFile' = modelFile]_vars
    /\ [](pc = "returned" /\ args.epochs = 0
            => history = EmptyHistory /\ saves = 0)

\* C1 witness: a returned run whose first epoch improved and was saved and
\* whose second epoch did not improve and was not.
C1_Witness ==
    /\ pc = "returned"
    /\ args.epochs = 2
    /\ history.val_loss = <<1, 2>>
    /\ saves = 1
    /\ modelFile = <<[run |-> 1, epoch |-> 1]>>

ForecastPcs == {"predict_call", "predict_loop", "report", "exit0"}

\* C2: in every run that loads the checkpoint instead of training, the
\* bounds the forecaster uses are the bounds fitted in the training run
\* that wrote the loaded weights.
C2_LoadedBoundsAreTrainingBounds ==
    (pc \in ForecastPcs /\ caller = "main" /\ ~need_training)
        => scaler = savedUnder

\* C3 as stated: a run without the retrain flag that finds no valid
\* checkpoint (weights and bounds) does not go on to train.
C3_MissingCheckpointIsFatal ==
    [][(/\ pc = "fetched"
        /\ Len(historical_pxi) >= SEQUENCE_LENGTH + MIN_MARGIN
        /\ ~args.retrain
        /\ (modelFile = <<>> \/ scalerFile = <<>>))
       => pc' \notin {"prepare", "train_call", "train_loop"}]_vars

\* C3 amended: a run without the retrain flag that finds no weights file
\* takes the training path, exactly as with the flag; it ends with the
\* bounds it fitted persisted and a report printed; a run loads only when
\* the weights file exists.
C3_MissingWeightsTriggersTraining ==
    /\ [][(/\ pc = "fetched"
           /\ Len(historical_pxi) >= SEQUENCE_LENGTH + MIN_MARGIN
           /\ ~args.retrain)
          => IF modelFile = <<>>
             THEN pc' = "prepare" /\ need_training'
             ELSE pc' = "load" /\ ~need_training']_vars
    /\ [](pc = "exit0" /\ ~args.retrain /\ need_training
            => /\ output # <<>>
               /\ scalerFile = <<fit(historical_pxi)>>
               /\ Len(history.val_loss) = args.epochs)

\* C3 witness: a finished run that was invoked without the retrain flag,
\* trained all the same, and printed its report.
C3_Witness ==
    /\ pc = "exit0"
    /\ ~args.retrain
    /\ need_training
    /\ args.epochs = 2
    /\ modelFile # <<>>
    /\ output # <<>>

TooShort == pc # "start" /\ Len(historical_pxi) < 20

\* C4: a run whose fetched series has fewer than 20 points ends in the
\* fatal exit before any fit, windowing, training, load or forecast step,
\* writes neither file and prints no report; a run that reaches windowing
\* or forecasting has at least 20 points.
C4_ShortSeriesAborts ==
    /\ [](TooShort
            => /\ pc \in {"fetched", "exit1"}
               /\ scaler = UnfitScaler
               /\ model = NoModel
               /\ train_dataset = EmptyDataset
               /\ val_dataset = EmptyDataset
               /\ history = EmptyHistory
               /\ current_seq = <<>>
               /\ forecasts = <<>>
               /\ output = <<>>)
    /\ [][TooShort => UNCHANGED fileVars /\ pc' \in {"exit1", "start"}]_vars
    /\ [](pc \in {"prepare", "train_call", "train_loop", "save_scaler", "load"}
                 \cup ForecastPcs
            => Len(historical_pxi) >= 20)

\* C4 witness: a run that fetched 5 points and has exited with the error.
C4_Witness ==
    /\ pc = "exit1"
    /\ Len(historical_pxi) = 5
    /\ output = <<>>

\* C5: with an empty validation set the trainer runs no epoch and records
\* no validation loss (so no undefined loss enters the history).
C5_EmptyValidationRejected ==
    (pc \in {"train_loop", "returned"} /\ DatasetLen(val_dataset) = 0)
        => /\ epoch = 0
           /\ history.val_loss = <<>>

\* C6: predict_future ends, and returns exactly horizon entries whose day
\* indices are 1, 2, ..., horizon in that order.
C6_ExactlyHorizonEntries ==
    /\ day <= args.horizon
    /\ Len(forecasts) = day
    /\ \A i \in 1..Len(forecasts) : forecasts[i].day = i
    /\ pc = "returned" => Len(forecasts) = args.horizon
    /\ pc # "returned" => ENABLED NextForecast

\* C6 witness: a returned forecast longer than the window.
C6_Witness ==
    /\ pc = "returned"
    /\ args.horizon = SEQUENCE_LENGTH + 2
    /\ Len(forecasts) = SEQUENCE_LENGTH + 2
    /\ forecasts[SEQUENCE_LENGTH + 2].day = SEQUENCE_LENGTH + 2

\* C7: after day d the buffer has N + d entries: the normalized initial
\* window followed by the predictions as produced; the input of day d is
\* the last max(0, N - (d-1)) entries of the normalized initial window
\* followed by the min(d-1, N) most recent predictions.
C7_AutoregressiveWindow ==
    (pc \in {"predict_loop", "returned"} /\ Len(initial_sequence) = SEQUENCE_LENGTH)
        => LET N == SEQUENCE_LENGTH
               d == day
               normalized == transform(scaler, initial_sequence)
               keep == Max2(0, N - (d - 1))
               fed == Min2(d - 1, N)
           IN  /\ Len(current_seq) = N + d
               /\ Len(pred_log) = d
               /\ current_seq = normalized \o pred_log
               /\ d >= 1 =>
                    input_seq = SubSeq(normalized, N - keep + 1, N)
                                \o SubSeq(pred_log, d - fed, d - 1)

\* C7 witness: day N + 2 is done, so the first prediction has left the
\* window, and a prediction outside [-1, 1] was fed back.
C7_Witness ==
    /\ pc = "predict_loop"
    /\ day = SEQUENCE_LENGTH + 2
    /\ pred_log[1] > Scale
    /\ pred_log[2] < Scale
    /\ input_seq[1] = pred_log[2]

\* C8: derive_regime returns Strong PAMP iff v > 2.0, Moderate PAMP iff
\* 1.0 < v <= 2.0, Normal iff -1.0 <= v <= 1.0, Elevated Stress iff
\* -2.0 <= v < -1.0, Crisis iff v < -2.0, and nothing else.
C8_RegimePartition ==
    pc = "returned" =>
        LET v == pxi_in
        IN  /\ regime_out \in {"Strong PAMP", "Moderate PAMP", "Normal",
                               "Elevated Stress", "Crisis"}
            /\ regime_out = "Strong PAMP" <=> v > 200
            /\ regime_out = "Moderate PAMP" <=> (100 < v /\ v <= 200)
            /\ regime_out = "Normal" <=> (-100 <= v /\ v <= 100)
            /\ regime_out = "Elevated Stress" <=> (-200 <= v /\ v < -100)
            /\ regime_out = "Crisis" <=> v < -200

\* C8 witness: the boundary value 2.0 was classified Moderate PAMP.
C8_Witness ==
    /\ pc = "returned"
    /\ pxi_in = 200
    /\ regime_out = "Moderate PAMP"

\* C9: the confidence of day d is max(0.5, 0.95 - (d-1)*0.05): never above
\* 0.95, never below 0.5, non-increasing, 0.95 ... 0.65 over the first
\* seven days, and 0.5 from day 10 on.
C9_ConfidenceDecay ==
    \A i \in 1..Len(forecasts) :
        LET c == forecasts[i].confidence
        IN  /\ c = Max2(50, 95 - (i - 1) * 5)
            /\ 50 <= c /\ c <= 95
            /\ i > 1 => c <= forecasts[i - 1].confidence
            /\ i <= 7 => c = <<95, 90, 85, 80, 75, 70, 65>>[i]
            /\ i >= 10 => c = 50

\* C9 witness: a returned forecast that runs past day 10.
C9_Witness ==
    /\ pc = "returned"
    /\ Len(forecasts) = 12
    /\ forecasts[7].confidence = 65
    /\ forecasts[12].confidence = 50

\* C10: in a run that trains, the parameters that make the forecast are
\* the parameters the run left in the checkpoint file.
C10_ForecastUsesPersistedParameters ==
    (pc \in ForecastPcs /\ caller = "main" /\ need_training /\ epoch >= 1)
        => modelFile = <<model>>

====
